---- MODULE Spec2Model ----
(***************************************************************************)
(* Model of the IP-ROAS calculation engine (src/src/lib/roas-engine.ts),  *)
(* of the Calculator component (src/src/components/Calculator.tsx) and of  *)
(* the chat: its POST handler (src/unnamed/part_000) and the ChatBot       *)
(* component (src/unnamed/part_001).                                       *)
(*                                                                         *)
(* A JavaScript number is modelled as an exact fraction <<n, d>> in lowest *)
(* terms with d > 0; positive infinity is the pair <<1, 0>>.  Arithmetic   *)
(* is exact: the rounding of IEEE-754 doubles is not modelled.             *)
(* JavaScript null is the record Null; the array calcularSensibilidad      *)
(* returns is the record [puntos |-> sequence], so that it can be told     *)
(* from Null.  NaN is the pair <<0, 0>>.                                   *)
(*                                                                         *)
(* A JavaScript string is modelled as the sequence of its characters, each *)
(* a one-character string; undefined, which parseCSV only meets on the     *)
(* left of ||, is modelled as the empty string, which is falsy as well.    *)
(***************************************************************************)
EXTENDS Integers, Sequences, FiniteSets, TLC

VARIABLES params, csvText, call, ret, calc, lecturas, chat, envio, post

vars == <<params, csvText, call, ret, calc, lecturas, chat, envio, post>>

\* the state of the Calculator component and the file reads in flight
uiVars == <<calc, lecturas>>

\* the state of the ChatBot component, of its sendMessage call (idle when
\* none is in flight) and of the call of the POST handler serving it
chatVars == <<chat, envio, post>>

----------------------------------------------------------------------------
(* Numbers *)

Abs(n) == IF n < 0 THEN -n ELSE n

RECURSIVE GCD(_, _)
GCD(a, b) == IF b = 0 THEN a ELSE GCD(b, a % b)

\* the fraction n/d (d # 0) in lowest terms with a positive denominator
Frac(n, d) ==
  LET g == GCD(Abs(n), Abs(d))
      s == IF d < 0 THEN -1 ELSE 1
  IN  <<(s * n) \div g, (s * d) \div g>>

R(n) == <<n, 1>>

Infinity == <<1, 0>>

isFinite(a) == a[2] # 0

Add(a, b) == Frac(a[1] * b[2] + b[1] * a[2], a[2] * b[2])

Sub(a, b) == Frac(a[1] * b[2] - b[1] * a[2], a[2] * b[2])

Mul(a, b) == Frac(a[1] * b[1], a[2] * b[2])

\* a / b for finite a and finite non-zero b
Div(a, b) == Frac(a[1] * b[2], a[2] * b[1])

Lt(a, b) == a[1] * b[2] < b[1] * a[2]

Le(a, b) == a[1] * b[2] <= b[1] * a[2]

Max(a, b) == IF Lt(a, b) THEN b ELSE a

Min(a, b) == IF Lt(b, a) THEN b ELSE a

\* Math.ceil of a finite number: the least integer >= a
Ceil(a) == R(-((-a[1]) \div a[2]))

isInteger(a) == a[2] = 1

----------------------------------------------------------------------------
(* Bounds and input domains *)

MaxProductos == 2

MaxPuntos == 3

Null == [isNull |-> TRUE]

Producto(nombre, precio, margenBruto) ==
  [nombre |-> nombre, precio |-> precio, margenBruto |-> margenBruto]

\* the products a portfolio is drawn from: absolute margins 300, 100,
\* 300 (a tie with the first), 0 and -200
Catalogo ==
  { Producto("Producto A", R(1000), Frac(3, 10)),
    Producto("Producto B", R(500), Frac(1, 5)),
    Producto("Producto E", R(600), Frac(1, 2)),
    Producto("Producto Z", R(1000), R(0)),
    Producto("Producto N", R(800), Frac(-1, 4)) }

RECURSIVE SeqsUpTo(_, _)
SeqsUpTo(S, n) ==
  IF n = 0 THEN {<<>>}
  ELSE LET shorter == SeqsUpTo(S, n - 1)
       IN  shorter \cup {Append(s, e) : s \in {t \in shorter : Len(t) = n - 1}, e \in S}

Portafolios == SeqsUpTo(Catalogo, MaxProductos)

ValoresIP == {R(-1000), R(0), R(60), R(50000)}

ValoresTF == {R(-1000), R(0), R(10000)}

ValoresIE == {R(0), R(1000), R(15000)}

ParametrosCliente ==
  [inversionPublicitaria : ValoresIP, tarifaFija : ValoresTF,
   ingresoEsperado : ValoresIE, productos : Portafolios]

----------------------------------------------------------------------------
(* Helper functions *)

margenAbsoluto(producto) == Mul(producto.precio, producto.margenBruto)

costosTotales(p) ==
  Add(Add(p.inversionPublicitaria, p.tarifaFija), p.ingresoEsperado)

\* faulty variant of reduceMin: a non-strict comparison keeps the last minimal element
RECURSIVE reduceMinUltimoEmpate(_, _, _)
reduceMinUltimoEmpate(productos, i, min) ==
  IF i > Len(productos) THEN min
  ELSE reduceMinUltimoEmpate(productos, i + 1,
         IF Le(margenAbsoluto(productos[i]), margenAbsoluto(min))
         THEN productos[i] ELSE min)

\* Array.prototype.reduce without an initial value: the accumulator starts
\* as the first element and the callback runs on the elements after it
RECURSIVE reduceMin(_, _, _)
reduceMin(productos, i, min) ==
  IF i > Len(productos) THEN min
  ELSE reduceMin(productos, i + 1,
         IF Lt(margenAbsoluto(productos[i]), margenAbsoluto(min))
         THEN productos[i] ELSE min)

productoMargenMinimo(productos) ==
  IF Len(productos) = 0 THEN Null
  ELSE reduceMin(productos, 2, productos[1])

----------------------------------------------------------------------------
(* Core calculations *)

\* faulty variant of calcularIpRoas: the leading 1 is dropped
calcularIpRoasSinUno(IP, TF, IE) ==
  IF Le(IP, R(0)) THEN Infinity
  ELSE Div(Add(TF, IE), IP)

\* faulty variant of calcularIpRoas: the guard returns 0 rather than infinity
calcularIpRoasCeroSentinela(IP, TF, IE) ==
  IF Le(IP, R(0)) THEN R(0)
  ELSE Add(R(1), Div(Add(TF, IE), IP))

calcularIpRoas(IP, TF, IE) ==
  IF Le(IP, R(0)) THEN Infinity
  ELSE Add(R(1), Div(Add(TF, IE), IP))

\* faulty variant of calcularVum: the quotient is rounded down
calcularVumPiso(p, margenPasado, margenAbs) ==
  LET producto == productoMargenMinimo(p.productos) IN
  IF ~margenPasado /\ (producto = Null \/ Le(margenAbsoluto(producto), R(0)))
  THEN R(0)
  ELSE LET m == IF margenPasado THEN margenAbs ELSE margenAbsoluto(producto)
           q == Div(costosTotales(p), m)
       IN  IF Le(m, R(0)) THEN R(0)
           ELSE R(q[1] \div q[2])

\* margenPasado = FALSE models a call without the optional margenAbs
calcularVum(p, margenPasado, margenAbs) ==
  LET producto == productoMargenMinimo(p.productos) IN
  IF ~margenPasado /\ (producto = Null \/ Le(margenAbsoluto(producto), R(0)))
  THEN R(0)
  ELSE LET m == IF margenPasado THEN margenAbs ELSE margenAbsoluto(producto) IN
       IF Le(m, R(0)) THEN R(0)
       ELSE Ceil(Div(costosTotales(p), m))

calcularRoasMinTradicional(IP, vum, precio) ==
  IF Le(IP, R(0)) THEN Infinity
  ELSE Div(Mul(precio, vum), IP)

\* faulty variant of calcularCprEstimado: the quotient is inverted
calcularCprEstimadoInvertido(IP, vum) ==
  IF Le(vum, R(0)) THEN Infinity
  ELSE Div(vum, IP)

\* faulty variant of calcularCprEstimado: the guard returns 0 rather than infinity
calcularCprEstimadoCeroSentinela(IP, vum) ==
  IF Le(vum, R(0)) THEN R(0)
  ELSE Div(IP, vum)

calcularCprEstimado(IP, vum) ==
  IF Le(vum, R(0)) THEN Infinity
  ELSE Div(IP, vum)

\* faulty variant of fRoasTradicional: IP is left out of the total cost
fRoasTradicionalSinIP(IP, TF, IE, mStar, pStar) ==
  IF Le(IP, R(0)) \/ Le(mStar, R(0)) THEN Infinity
  ELSE LET vum == Ceil(Div(Add(TF, IE), mStar))
       IN  Div(Mul(pStar, vum), IP)

\* faulty variant of fRoasTradicional: the units are priced at the margin
fRoasTradicionalMargenPorPrecio(IP, TF, IE, mStar, pStar) ==
  IF Le(IP, R(0)) \/ Le(mStar, R(0)) THEN Infinity
  ELSE LET vum == Ceil(Div(Add(Add(TF, IP), IE), mStar))
       IN  Div(Mul(mStar, vum), IP)

fRoasTradicional(IP, TF, IE, mStar, pStar) ==
  IF Le(IP, R(0)) \/ Le(mStar, R(0)) THEN Infinity
  ELSE LET vum == Ceil(Div(Add(Add(TF, IP), IE), mStar))
       IN  Div(Mul(pStar, vum), IP)

----------------------------------------------------------------------------
(* Main calculation *)

\* faulty variant of calcularTodo: the empty-portfolio result still totals the costs
calcularTodoCostosEnVacio(p) ==
  LET producto == productoMargenMinimo(p.productos) IN
  IF producto = Null
  THEN [ipRoas |-> R(0), vum |-> R(0), roasMinTradicional |-> R(0),
        cprEstimado |-> R(0), costosTotales |-> costosTotales(p),
        margenMinimoUsado |-> R(0), precioProductoMinimo |-> R(0),
        productoCritico |-> "N/A"]
  ELSE LET IP == p.inversionPublicitaria
           TF == p.tarifaFija
           IE == p.ingresoEsperado
           vum == calcularVum(p, FALSE, R(0))
       IN  [ipRoas |-> calcularIpRoas(IP, TF, IE),
            vum |-> vum,
            roasMinTradicional |-> calcularRoasMinTradicional(IP, vum, producto.precio),
            cprEstimado |-> calcularCprEstimado(IP, vum),
            costosTotales |-> costosTotales(p),
            margenMinimoUsado |-> margenAbsoluto(producto),
            precioProductoMinimo |-> producto.precio,
            productoCritico |-> producto.nombre]

\* faulty variant of calcularTodo: the traditional ROAS is fed the margin, not the price
calcularTodoMargenPorPrecio(p) ==
  LET producto == productoMargenMinimo(p.productos) IN
  IF producto = Null
  THEN [ipRoas |-> R(0), vum |-> R(0), roasMinTradicional |-> R(0),
        cprEstimado |-> R(0), costosTotales |-> R(0),
        margenMinimoUsado |-> R(0), precioProductoMinimo |-> R(0),
        productoCritico |-> "N/A"]
  ELSE LET IP == p.inversionPublicitaria
           TF == p.tarifaFija
           IE == p.ingresoEsperado
           vum == calcularVum(p, FALSE, R(0))
       IN  [ipRoas |-> calcularIpRoas(IP, TF, IE),
            vum |-> vum,
            roasMinTradicional |-> calcularRoasMinTradicional(IP, vum, margenAbsoluto(producto)),
            cprEstimado |-> calcularCprEstimado(IP, vum),
            costosTotales |-> costosTotales(p),
            margenMinimoUsado |-> margenAbsoluto(producto),
            precioProductoMinimo |-> producto.precio,
            productoCritico |-> producto.nombre]

calcularTodo(p) ==
  LET producto == productoMargenMinimo(p.productos) IN
  IF producto = Null
  THEN [ipRoas |-> R(0), vum |-> R(0), roasMinTradicional |-> R(0),
        cprEstimado |-> R(0), costosTotales |-> R(0),
        margenMinimoUsado |-> R(0), precioProductoMinimo |-> R(0),
        productoCritico |-> "N/A"]
  ELSE LET IP == p.inversionPublicitaria
           TF == p.tarifaFija
           IE == p.ingresoEsperado
           vum == calcularVum(p, FALSE, R(0))
       IN  [ipRoas |-> calcularIpRoas(IP, TF, IE),
            vum |-> vum,
            roasMinTradicional |-> calcularRoasMinTradicional(IP, vum, producto.precio),
            cprEstimado |-> calcularCprEstimado(IP, vum),
            costosTotales |-> costosTotales(p),
            margenMinimoUsado |-> margenAbsoluto(producto),
            precioProductoMinimo |-> producto.precio,
            productoCritico |-> producto.nombre]

----------------------------------------------------------------------------
(* Sensitivity analysis *)

\* faulty variant of linspace: the step divides by n, so the end point is never reached
linspaceSinExtremo(start, end, n) ==
  IF n <= 1 THEN <<start>>
  ELSE LET step == Div(Sub(end, start), R(n))
       IN  [i \in 1..n |-> Add(start, Mul(step, R(i - 1)))]

linspace(start, end, n) ==
  IF n <= 1 THEN <<start>>
  ELSE LET step == Div(Sub(end, start), R(n - 1))
       IN  [i \in 1..n |-> Add(start, Mul(step, R(i - 1)))]

SensitivityType == {"IP", "TF", "IE", "Margen"}

\* case 'IP' of the switch
puntosIP(p, producto, numPoints) ==
  LET mStar == margenAbsoluto(producto)
      pStar == producto.precio
      TF == p.tarifaFija
      IE == p.ingresoEsperado
      IP == IF Le(p.inversionPublicitaria, R(0)) THEN R(10000)
            ELSE p.inversionPublicitaria
      xMin == Max(R(100), Mul(IP, Frac(1, 2)))
      xMax == Mul(IP, Frac(3, 2))
      xValues == linspace(xMin, xMax, numPoints)
  IN  [k \in DOMAIN xValues |->
         [x |-> xValues[k],
          ipRoas |-> calcularIpRoas(xValues[k], TF, IE),
          roasTradicional |-> fRoasTradicional(xValues[k], TF, IE, mStar, pStar)]]

\* faulty variant of puntosTF: a non-positive IP is replaced by its default too
puntosTFConIPPorDefecto(p, producto, numPoints) ==
  LET mStar == margenAbsoluto(producto)
      pStar == producto.precio
      IP == IF Le(p.inversionPublicitaria, R(0)) THEN R(10000)
            ELSE p.inversionPublicitaria
      IE == p.ingresoEsperado
      TF == IF Le(p.tarifaFija, R(0)) THEN R(5000) ELSE p.tarifaFija
      xMin == Max(R(0), Mul(TF, Frac(1, 2)))
      xMax == Mul(TF, Frac(3, 2))
      xValues == linspace(xMin, xMax, numPoints)
  IN  [k \in DOMAIN xValues |->
         [x |-> xValues[k],
          ipRoas |-> calcularIpRoas(IP, xValues[k], IE),
          roasTradicional |-> fRoasTradicional(IP, xValues[k], IE, mStar, pStar)]]

\* case 'TF' of the switch
puntosTF(p, producto, numPoints) ==
  LET mStar == margenAbsoluto(producto)
      pStar == producto.precio
      IP == p.inversionPublicitaria
      IE == p.ingresoEsperado
      TF == IF Le(p.tarifaFija, R(0)) THEN R(5000) ELSE p.tarifaFija
      xMin == Max(R(0), Mul(TF, Frac(1, 2)))
      xMax == Mul(TF, Frac(3, 2))
      xValues == linspace(xMin, xMax, numPoints)
  IN  [k \in DOMAIN xValues |->
         [x |-> xValues[k],
          ipRoas |-> calcularIpRoas(IP, xValues[k], IE),
          roasTradicional |-> fRoasTradicional(IP, xValues[k], IE, mStar, pStar)]]

\* case 'IE' of the switch
puntosIE(p, producto, numPoints) ==
  LET mStar == margenAbsoluto(producto)
      pStar == producto.precio
      IP == p.inversionPublicitaria
      TF == p.tarifaFija
      IE == IF Le(p.ingresoEsperado, R(0)) THEN R(5000) ELSE p.ingresoEsperado
      xMin == Max(R(0), Mul(IE, Frac(1, 2)))
      xMax == Mul(IE, Frac(3, 2))
      xValues == linspace(xMin, xMax, numPoints)
  IN  [k \in DOMAIN xValues |->
         [x |-> xValues[k],
          ipRoas |-> calcularIpRoas(IP, TF, xValues[k]),
          roasTradicional |-> fRoasTradicional(IP, TF, xValues[k], mStar, pStar)]]

\* faulty variant of puntosMargen: the swept x is fed to the IP-ROAS formula
puntosMargenIpRoasBarrido(p, producto, numPoints) ==
  LET pStar == producto.precio
      IP == p.inversionPublicitaria
      TF == p.tarifaFija
      IE == p.ingresoEsperado
      margenPct == IF Le(producto.margenBruto, R(0)) THEN Frac(3, 10)
                   ELSE producto.margenBruto
      xMin == Max(Frac(1, 20), Mul(margenPct, Frac(1, 2)))
      xMax == Min(Frac(19, 20), Mul(margenPct, Frac(3, 2)))
      xValues == linspace(xMin, xMax, numPoints)
  IN  [k \in DOMAIN xValues |->
         [x |-> xValues[k],
          ipRoas |-> calcularIpRoas(IP, TF, xValues[k]),
          roasTradicional |->
            fRoasTradicional(IP, TF, IE, Mul(pStar, xValues[k]), pStar)]]

\* case 'Margen' of the switch
puntosMargen(p, producto, numPoints) ==
  LET pStar == producto.precio
      IP == p.inversionPublicitaria
      TF == p.tarifaFija
      IE == p.ingresoEsperado
      margenPct == IF Le(producto.margenBruto, R(0)) THEN Frac(3, 10)
                   ELSE producto.margenBruto
      xMin == Max(Frac(1, 20), Mul(margenPct, Frac(1, 2)))
      xMax == Min(Frac(19, 20), Mul(margenPct, Frac(3, 2)))
      xValues == linspace(xMin, xMax, numPoints)
  IN  [k \in DOMAIN xValues |->
         [x |-> xValues[k],
          ipRoas |-> calcularIpRoas(IP, TF, IE),
          roasTradicional |->
            fRoasTradicional(IP, TF, IE, Mul(pStar, xValues[k]), pStar)]]

\* the switch over the sweep kind, for the critical product already resolved
puntosSensibilidad(tipo, p, producto, numPoints) ==
  CASE tipo = "IP" -> puntosIP(p, producto, numPoints)
    [] tipo = "TF" -> puntosTF(p, producto, numPoints)
    [] tipo = "IE" -> puntosIE(p, producto, numPoints)
    [] tipo = "Margen" -> puntosMargen(p, producto, numPoints)
    [] OTHER -> Null

\* faulty variant of calcularSensibilidad: an empty list instead of null
calcularSensibilidadListaVacia(tipo, p, numPoints) ==
  LET producto == productoMargenMinimo(p.productos) IN
  IF producto = Null THEN [puntos |-> <<>>]
  ELSE [puntos |-> puntosSensibilidad(tipo, p, producto, numPoints)]

calcularSensibilidad(tipo, p, numPoints) ==
  LET producto == productoMargenMinimo(p.productos) IN
  IF producto = Null THEN Null
  ELSE [puntos |-> puntosSensibilidad(tipo, p, producto, numPoints)]

----------------------------------------------------------------------------
(* CSV parsing *)

NaN == <<0, 0>>

isNaN(a) == a = NaN

Whitespace == {" ", "\t", "\n", "\r"}

RECURSIVE trimStart(_)
trimStart(s) ==
  IF s # <<>> /\ s[1] \in Whitespace THEN trimStart(Tail(s)) ELSE s

RECURSIVE trimEnd(_)
trimEnd(s) ==
  IF s # <<>> /\ s[Len(s)] \in Whitespace
  THEN trimEnd(SubSeq(s, 1, Len(s) - 1)) ELSE s

trim(s) == trimEnd(trimStart(s))

\* String.prototype.split on a one-character separator
RECURSIVE split(_, _)
split(s, sep) ==
  IF \A i \in 1..Len(s) : s[i] # sep THEN <<s>>
  ELSE LET i == CHOOSE j \in 1..Len(s) :
                  s[j] = sep /\ \A k \in 1..(j - 1) : s[k] # sep
       IN  <<SubSeq(s, 1, i - 1)>> \o split(SubSeq(s, i + 1, Len(s)), sep)

Mayusculas == <<"A", "B", "C", "D", "E", "F", "G", "H", "I", "J", "K", "L", "M",
                "N", "O", "P", "Q", "R", "S", "T", "U", "V", "W", "X", "Y", "Z">>

Minusculas == <<"a", "b", "c", "d", "e", "f", "g", "h", "i", "j", "k", "l", "m",
                "n", "o", "p", "q", "r", "s", "t", "u", "v", "w", "x", "y", "z">>

toLowerCase(s) ==
  [i \in 1..Len(s) |->
     IF \E k \in 1..26 : Mayusculas[k] = s[i]
     THEN Minusculas[CHOOSE k \in 1..26 : Mayusculas[k] = s[i]]
     ELSE s[i]]

Digitos == <<"0", "1", "2", "3", "4", "5", "6", "7", "8", "9">>

esDigito(c) == \E d \in 1..10 : Digitos[d] = c

valorDigito(c) == (CHOOSE d \in 1..10 : Digitos[d] = c) - 1

RECURSIVE contarDigitos(_)
contarDigitos(s) ==
  IF s # <<>> /\ esDigito(s[1]) THEN 1 + contarDigitos(Tail(s)) ELSE 0

\* the value of the first n characters of s, all digits, after the value acc
RECURSIVE valorDigitos(_, _, _)
valorDigitos(s, n, acc) ==
  IF n = 0 THEN acc
  ELSE valorDigitos(Tail(s), n - 1, 10 * acc + valorDigito(s[1]))

RECURSIVE Pow10(_)
Pow10(k) == IF k = 0 THEN 1 ELSE 10 * Pow10(k - 1)

\* parseFloat: the longest prefix sign? digits [. digits] after leading
\* white space, NaN when that prefix has no digit (exponents and the word
\* Infinity, which no input of the model contains, are not read)
parseFloat(s) ==
  LET t == trimStart(s)
      signed == t # <<>> /\ t[1] \in {"+", "-"}
      negative == t # <<>> /\ t[1] = "-"
      body == IF signed THEN Tail(t) ELSE t
      intLen == contarDigitos(body)
      rest == SubSeq(body, intLen + 1, Len(body))
      hasDot == rest # <<>> /\ rest[1] = "."
      fracLen == IF hasDot THEN contarDigitos(Tail(rest)) ELSE 0
      digits == IF hasDot THEN SubSeq(body, 1, intLen) \o SubSeq(rest, 2, fracLen + 1)
                ELSE SubSeq(body, 1, intLen)
      magnitude == Frac(valorDigitos(digits, Len(digits), 0), Pow10(fracLen))
  IN  IF intLen = 0 /\ fracLen = 0 THEN NaN
      ELSE IF negative THEN Sub(R(0), magnitude) ELSE magnitude

\* String(n) of a natural number, as the template literal renders it
RECURSIVE String(_)
String(n) ==
  IF n < 10 THEN <<Digitos[n + 1]>>
  ELSE String(n \div 10) \o <<Digitos[(n % 10) + 1]>>

\* the column names parseCSV looks up
Clave_nombre == <<"n", "o", "m", "b", "r", "e">>

Clave_name == <<"n", "a", "m", "e">>

Clave_precio == <<"p", "r", "e", "c", "i", "o">>

Clave_price == <<"p", "r", "i", "c", "e">>

Clave_margen == <<"m", "a", "r", "g", "e", "n">>

Clave_margen_bruto == <<"m", "a", "r", "g", "e", "n", "_", "b", "r", "u", "t", "o">>

Clave_margin == <<"m", "a", "r", "g", "i", "n">>

\* row[key] after headers.forEach: the value under the last header equal to
\* key, the empty string when there is none
row(headers, values, key) ==
  IF \A i \in 1..Len(headers) : headers[i] # key THEN <<>>
  ELSE values[CHOOSE i \in 1..Len(headers) :
                headers[i] = key /\ \A j \in (i + 1)..Len(headers) : headers[j] # key]

\* a || b on strings
Or(a, b) == IF a # <<>> THEN a ELSE b

\* faulty variant of nombreDeFila: the default name counts data lines, not products
nombreDeFilaPorLinea(headers, values, i, productos) ==
  Or(Or(row(headers, values, Clave_nombre),
        row(headers, values, Clave_name)),
     <<"P">> \o String(i - 1))

nombreDeFila(headers, values, i, productos) ==
  Or(Or(row(headers, values, Clave_nombre),
        row(headers, values, Clave_name)),
     <<"P">> \o String(Len(productos) + 1))

precioDeFila(headers, values) ==
  parseFloat(Or(Or(row(headers, values, Clave_precio),
                   row(headers, values, Clave_price)),
                <<"0">>))

\* faulty variant of margenDeFila: a margin of exactly 1 is taken as a percentage
margenDeFilaDesdeUno(headers, values) ==
  LET margen == parseFloat(Or(Or(Or(row(headers, values, Clave_margen),
                                    row(headers, values, Clave_margen_bruto)),
                                 row(headers, values, Clave_margin)),
                              <<"0">>))
  IN  IF ~isNaN(margen) /\ Le(R(1), margen) THEN Div(margen, R(100)) ELSE margen

margenDeFila(headers, values) ==
  LET margen == parseFloat(Or(Or(Or(row(headers, values, Clave_margen),
                                    row(headers, values, Clave_margen_bruto)),
                                 row(headers, values, Clave_margin)),
                              <<"0">>))
  IN  IF ~isNaN(margen) /\ Lt(R(1), margen) THEN Div(margen, R(100)) ELSE margen

\* faulty variant of filaAceptada: only the margin is tested
filaAceptadaSoloMargen(precio, margen) == ~isNaN(margen)

filaAceptada(precio, margen) == ~isNaN(precio) /\ ~isNaN(margen)

\* the for loop over the data lines, from line i on
RECURSIVE parseFilas(_, _, _, _)
parseFilas(lines, headers, i, productos) ==
  IF i > Len(lines) THEN productos
  ELSE LET raw == split(lines[i], ",")
           values == [k \in 1..Len(raw) |-> trim(raw[k])]
       IN  IF Len(values) < Len(headers)
           THEN parseFilas(lines, headers, i + 1, productos)
           ELSE LET nombre == nombreDeFila(headers, values, i, productos)
                    precio == precioDeFila(headers, values)
                    margen == margenDeFila(headers, values)
                IN  parseFilas(lines, headers, i + 1,
                      IF filaAceptada(precio, margen)
                      THEN Append(productos, Producto(nombre, precio, margen))
                      ELSE productos)

\* faulty variant of parseCSV: the loop starts one line late
parseCSVSaltaPrimera(text) ==
  LET lines == split(trim(text), "\n") IN
  IF Len(lines) < 2 THEN <<>>
  ELSE LET raw == split(lines[1], ",")
           headers == [k \in 1..Len(raw) |-> toLowerCase(trim(raw[k]))]
       IN  parseFilas(lines, headers, 3, <<>>)

parseCSV(text) ==
  LET lines == split(trim(text), "\n") IN
  IF Len(lines) < 2 THEN <<>>
  ELSE LET raw == split(lines[1], ",")
           headers == [k \in 1..Len(raw) |-> toLowerCase(trim(raw[k]))]
       IN  parseFilas(lines, headers, 2, <<>>)

----------------------------------------------------------------------------
(* The components after construction *)

\* the useState cells of Calculator with their initial values; no file is
\* being read
CalculadoraInicial ==
  /\ calc = [ip |-> R(0), tf |-> R(0), ie |-> R(0), productos |-> <<>>,
             prodNombre |-> <<>>, prodPrecio |-> <<>>, prodMargen |-> <<>>]
  /\ lecturas = {}

\* the useState cells of ChatBot with their initial values; no sendMessage
\* call is in flight and the POST handler has not been called
ChatInicial ==
  /\ chat = [messages |-> <<>>, input |-> <<>>, isStreaming |-> FALSE]
  /\ envio = [fase |-> "reposo", accumulated |-> <<>>, leidos |-> 0]
  /\ post = [fase |-> "inactivo", upstream |-> <<>>, desenlace |-> "completa",
             stream |-> <<>>, cerrado |-> FALSE]

----------------------------------------------------------------------------
(* Specification: the engine's functions applied to bounded inputs *)

Init ==
  /\ params \in ParametrosCliente
  /\ csvText = <<>>
  /\ CalculadoraInicial
  /\ ChatInicial
  /\ call = [op |-> "none"]
  /\ ret = Null

DoProductoMargenMinimo ==
  /\ call' = [op |-> "productoMargenMinimo"]
  /\ ret' = productoMargenMinimo(params.productos)
  /\ UNCHANGED <<params, csvText, uiVars, chatVars>>

DoCalcularIpRoas ==
  /\ call' = [op |-> "calcularIpRoas"]
  /\ ret' = calcularIpRoas(params.inversionPublicitaria, params.tarifaFija,
                           params.ingresoEsperado)
  /\ UNCHANGED <<params, csvText, uiVars, chatVars>>

DoCalcularTodo ==
  /\ call' = [op |-> "calcularTodo"]
  /\ ret' = calcularTodo(params)
  /\ UNCHANGED <<params, csvText, uiVars, chatVars>>

\* margins handed to calcularVum as its optional second argument
MargenesPasados == {R(-50), R(0), R(300), R(400)}

DoCalcularVum ==
  \E margenPasado \in BOOLEAN :
    \E margenAbs \in IF margenPasado THEN MargenesPasados ELSE {R(0)} :
      /\ call' = [op |-> "calcularVum", margenPasado |-> margenPasado,
                  margenAbs |-> margenAbs]
      /\ ret' = calcularVum(params, margenPasado, margenAbs)
      /\ UNCHANGED <<params, csvText, uiVars, chatVars>>

\* unit counts handed to calcularCprEstimado
ValoresVum == {R(-10), R(0), R(188)}

DoCalcularCprEstimado ==
  \E vum \in ValoresVum :
    /\ call' = [op |-> "calcularCprEstimado", IP |-> params.inversionPublicitaria,
                vum |-> vum]
    /\ ret' = calcularCprEstimado(params.inversionPublicitaria, vum)
    /\ UNCHANGED <<params, csvText, uiVars, chatVars>>

DoCalcularSensibilidad ==
  \E tipo \in SensitivityType, numPoints \in 0..MaxPuntos :
    /\ call' = [op |-> "calcularSensibilidad", tipo |-> tipo,
                numPoints |-> numPoints]
    /\ ret' = calcularSensibilidad(tipo, params, numPoints)
    /\ UNCHANGED <<params, csvText, uiVars, chatVars>>

Next ==
  \/ DoProductoMargenMinimo
  \/ DoCalcularIpRoas
  \/ DoCalcularVum
  \/ DoCalcularCprEstimado
  \/ DoCalcularTodo
  \/ DoCalcularSensibilidad

Spec == Init /\ [][Next]_vars

----------------------------------------------------------------------------
(* Specification: the sweep over portfolios with extreme gross margins *)

\* gross margins 0.3, 0.02 (below 0.05) and 2 (above 1)
CatalogoBarrido ==
  { Producto("Producto A", R(1000), Frac(3, 10)),
    Producto("Producto M", R(1000), Frac(1, 50)),
    Producto("Producto X", R(100), R(2)) }

ParametrosBarrido ==
  [inversionPublicitaria : {R(0), R(60), R(50000)},
   tarifaFija : {R(-1000), R(0), R(10000)},
   ingresoEsperado : {R(0), R(15000)},
   productos : SeqsUpTo(CatalogoBarrido, MaxProductos)]

InitBarrido ==
  /\ params \in ParametrosBarrido
  /\ csvText = <<>>
  /\ CalculadoraInicial
  /\ ChatInicial
  /\ call = [op |-> "none"]
  /\ ret = Null

NextBarrido == DoCalcularSensibilidad

SpecBarrido == InitBarrido /\ [][NextBarrido]_vars

----------------------------------------------------------------------------
(* Specification: the two traditional-ROAS formulas on free arguments *)

\* prices handed to the two formulas
ValoresPrecio == {R(500), R(1000)}

InitFormulas ==
  /\ params \in ParametrosCliente
  /\ csvText = <<>>
  /\ CalculadoraInicial
  /\ ChatInicial
  /\ params.productos = <<>>
  /\ call = [op |-> "none"]
  /\ ret = Null

DoCalcularRoasMinTradicional ==
  \E vum \in ValoresVum, precio \in ValoresPrecio :
    /\ call' = [op |-> "calcularRoasMinTradicional",
                IP |-> params.inversionPublicitaria, vum |-> vum,
                precio |-> precio]
    /\ ret' = calcularRoasMinTradicional(params.inversionPublicitaria, vum, precio)
    /\ UNCHANGED <<params, csvText, uiVars, chatVars>>

DoFRoasTradicional ==
  \E mStar \in MargenesPasados, pStar \in ValoresPrecio :
    /\ call' = [op |-> "fRoasTradicional", mStar |-> mStar, pStar |-> pStar]
    /\ ret' = fRoasTradicional(params.inversionPublicitaria, params.tarifaFija,
                               params.ingresoEsperado, mStar, pStar)
    /\ UNCHANGED <<params, csvText, uiVars, chatVars>>

NextFormulas ==
  \/ DoCalcularRoasMinTradicional
  \/ DoFRoasTradicional

SpecFormulas == InitFormulas /\ [][NextFormulas]_vars

----------------------------------------------------------------------------
(* Specification: parseCSV on texts of a header line and a few data lines *)

MaxFilas == 2

Encabezados ==
  { <<"n", "o", "m", "b", "r", "e", ",", "p", "r", "e", "c", "i", "o", ",", "m", "a", "r", "g", "e", "n">>,
    <<"N", "a", "m", "e", ",", " ", "P", "r", "i", "c", "e", " ", ",", "M", "a", "r", "g", "i", "n">>,
    <<"p", "r", "e", "c", "i", "o", ",", "m", "a", "r", "g", "e", "n">> }

Filas ==
  { <<"Z", "a", "p", "a", "t", "o", "s", ",", " ", "1", "5", "0", "0", " ", ",", "3", "5">>,
    <<"Z", "a", "p", "a", "t", "o", "s", ",", "1", "5", "0", "0", ",", "0", ".", "3", "5">>,
    <<"C", "a", "m", "i", "s", "a", ",", "8", "0", "0", ",", "0", ".", "2", "5">>,
    <<"I", "n", "v", "a", "l", "i", "d", ",", "a", "b", "c", ",", "x", "y", "z">>,
    <<",", "1", "0", "0", ",", "1">>,
    <<"V", "a", "c", "i", "o", ",", ",", "0", ".", "5">>,
    <<"C", "o", "r", "t", "o", ",", "5">>,
    <<"a", ",", "b", ",", "1", "0", "0", ",", "0", ".", "5">>,
    <<"2", "0", "0", ",", "4", "0", ",", "7">> }

\* the lines joined by line breaks
RECURSIVE unirLineas(_)
unirLineas(ls) ==
  IF Len(ls) = 0 THEN <<>>
  ELSE IF Len(ls) = 1 THEN ls[1]
  ELSE ls[1] \o <<"\n">> \o unirLineas(Tail(ls))

TextosCSV ==
  {<<>>} \cup
  { unirLineas(<<h>> \o fs) \o fin :
      h \in Encabezados, fs \in SeqsUpTo(Filas, MaxFilas), fin \in {<<>>, <<"\n">>} }

InitCSV ==
  /\ params = [inversionPublicitaria |-> R(0), tarifaFija |-> R(0),
               ingresoEsperado |-> R(0), productos |-> <<>>]
  /\ csvText \in TextosCSV
  /\ CalculadoraInicial
  /\ ChatInicial
  /\ call = [op |-> "none"]
  /\ ret = Null

DoParseCSV ==
  /\ call' = [op |-> "parseCSV"]
  /\ ret' = parseCSV(csvText)
  /\ UNCHANGED <<params, csvText, uiVars, chatVars>>

NextCSV == DoParseCSV

SpecCSV == InitCSV /\ [][NextCSV]_vars

----------------------------------------------------------------------------
(* Specification: degenerate portfolios, with amounts that cancel out *)

\* absolute margins 300, 0, 0 and -200; one product carries the name the
\* empty-portfolio result uses
CatalogoDegenerado ==
  { Producto("Producto A", R(1000), Frac(3, 10)),
    Producto("Producto Z", R(1000), R(0)),
    Producto("N/A", R(500), R(0)),
    Producto("Producto N", R(800), Frac(-1, 4)) }

ParametrosDegenerados ==
  [inversionPublicitaria : {R(0), R(1000)}, tarifaFija : {R(-1000), R(0)},
   ingresoEsperado : {R(0), R(1000)},
   productos : SeqsUpTo(CatalogoDegenerado, MaxProductos)]

InitDegenerado ==
  /\ params \in ParametrosDegenerados
  /\ csvText = <<>>
  /\ CalculadoraInicial
  /\ ChatInicial
  /\ call = [op |-> "none"]
  /\ ret = Null

NextDegenerado ==
  \/ DoCalcularTodo
  \/ DoCalcularSensibilidad

SpecDegenerado == InitDegenerado /\ [][NextDegenerado]_vars

----------------------------------------------------------------------------
(* Specification: the Calculator component (src/src/components/Calculator.tsx) *)

MaxLecturas == 1

\* numbers typed into the three amount fields
ValoresCampo == {R(-5), R(1000)}

NombresFormulario == {<<>>, <<" ", "A">>}

PreciosFormulario == {<<>>, <<"1", "0", "0">>, <<"0">>}

MargenesFormulario == {<<>>, <<"3", "0">>, <<"1", "5", "0">>}

\* the texts of the files the user uploads: two good rows, one with a
\* percentage margin; a row with an empty price; a row without numbers
ArchivosCSV ==
  { <<"n", "o", "m", "b", "r", "e", ",", "p", "r", "e", "c", "i", "o", ",", "m", "a", "r", "g", "e", "n", "\n", "Z", "a", "p", "a", "t", "o", "s", ",", "1", "5", "0", "0", ",", "3", "5", "\n", "C", "a", "m", "i", "s", "a", ",", "8", "0", "0", ",", "0", ".", "2", "5">>,
    <<"n", "o", "m", "b", "r", "e", ",", "p", "r", "e", "c", "i", "o", ",", "m", "a", "r", "g", "e", "n", "\n", "V", "a", "c", "i", "o", ",", ",", "0", ".", "5">>,
    <<"n", "o", "m", "b", "r", "e", ",", "p", "r", "e", "c", "i", "o", ",", "m", "a", "r", "g", "e", "n", "\n", "I", "n", "v", "a", "l", "i", "d", ",", "a", "b", "c", ",", "x", "y", "z">> }

SetIp ==
  \E v \in ValoresCampo :
    /\ calc' = [calc EXCEPT !.ip = Max(R(0), v)]
    /\ call' = [op |-> "setIp"]
    /\ UNCHANGED <<params, csvText, ret, lecturas, chatVars>>

SetTf ==
  \E v \in ValoresCampo :
    /\ calc' = [calc EXCEPT !.tf = Max(R(0), v)]
    /\ call' = [op |-> "setTf"]
    /\ UNCHANGED <<params, csvText, ret, lecturas, chatVars>>

SetIe ==
  \E v \in ValoresCampo :
    /\ calc' = [calc EXCEPT !.ie = Max(R(0), v)]
    /\ call' = [op |-> "setIe"]
    /\ UNCHANGED <<params, csvText, ret, lecturas, chatVars>>

SetProdNombre ==
  \E v \in NombresFormulario :
    /\ calc' = [calc EXCEPT !.prodNombre = v]
    /\ call' = [op |-> "setProdNombre"]
    /\ UNCHANGED <<params, csvText, ret, lecturas, chatVars>>

SetProdPrecio ==
  \E v \in PreciosFormulario :
    /\ calc' = [calc EXCEPT !.prodPrecio = v]
    /\ call' = [op |-> "setProdPrecio"]
    /\ UNCHANGED <<params, csvText, ret, lecturas, chatVars>>

SetProdMargen ==
  \E v \in MargenesFormulario :
    /\ calc' = [calc EXCEPT !.prodMargen = v]
    /\ call' = [op |-> "setProdMargen"]
    /\ UNCHANGED <<params, csvText, ret, lecturas, chatVars>>

\* the state handleAddProduct leaves: c unchanged when the form is rejected
handleAddProduct(c) ==
  LET precio == parseFloat(c.prodPrecio)
      margen == parseFloat(c.prodMargen)
  IN  IF \/ trim(c.prodNombre) = <<>>
         \/ isNaN(precio) \/ Le(precio, R(0))
         \/ isNaN(margen) \/ Le(margen, R(0)) \/ Lt(R(100), margen)
      THEN c
      ELSE [c EXCEPT
              !.productos = Append(@, Producto(trim(c.prodNombre), precio,
                                               Div(margen, R(100)))),
              !.prodNombre = <<>>, !.prodPrecio = <<>>, !.prodMargen = <<>>]

\* the form adds products up to MaxProductos
HandleAddProduct ==
  /\ Len(calc.productos) < MaxProductos
  /\ calc' = handleAddProduct(calc)
  /\ call' = [op |-> "handleAddProduct"]
  /\ UNCHANGED <<params, csvText, ret, lecturas, chatVars>>

\* prev.filter((_, i) => i !== index), index counted from 0
filterNotIndex(prev, index) ==
  LET keep == {i \in 1..Len(prev) : i - 1 # index}
  IN  [k \in 1..Cardinality(keep) |->
         prev[CHOOSE i \in keep : Cardinality({j \in keep : j < i}) = k - 1]]

HandleRemoveProduct ==
  \E index \in 0..(Len(calc.productos) - 1) :
    /\ calc' = [calc EXCEPT !.productos = filterNotIndex(@, index)]
    /\ call' = [op |-> "handleRemoveProduct"]
    /\ UNCHANGED <<params, csvText, ret, lecturas, chatVars>>

OnClear ==
  /\ calc' = [calc EXCEPT !.productos = <<>>]
  /\ call' = [op |-> "onClear"]
  /\ UNCHANGED <<params, csvText, ret, lecturas, chatVars>>

\* a file is chosen and a FileReader starts reading it, or the change event
\* carries no file and the handler returns at once
HandleCSVUpload ==
  /\ \/ \E file \in ArchivosCSV :
          /\ Cardinality(lecturas \cup {file}) <= MaxLecturas
          /\ lecturas' = lecturas \cup {file}
     \/ UNCHANGED lecturas
  /\ call' = [op |-> "handleCSVUpload"]
  /\ UNCHANGED <<params, csvText, ret, calc, chatVars>>

\* faulty variant of onload: the parsed products are added to the portfolio
onloadAnexa(prev, text) ==
  LET parsed == parseCSV(text)
  IN  IF Len(parsed) > 0 THEN prev \o parsed ELSE prev

\* the portfolio reader.onload leaves
onload(prev, text) ==
  LET parsed == parseCSV(text)
  IN  IF Len(parsed) > 0 THEN parsed ELSE prev

\* a read completes; call keeps the text read and the portfolio found
ReaderOnload ==
  \E text \in lecturas :
    /\ calc' = [calc EXCEPT !.productos = onload(@, text)]
    /\ lecturas' = lecturas \ {text}
    /\ call' = [op |-> "onload", text |-> text, prev |-> calc.productos]
    /\ UNCHANGED <<params, csvText, ret, chatVars>>

InitCalculadora ==
  /\ params = [inversionPublicitaria |-> R(0), tarifaFija |-> R(0),
               ingresoEsperado |-> R(0), productos |-> <<>>]
  /\ csvText = <<>>
  /\ call = [op |-> "none"]
  /\ ret = Null
  /\ CalculadoraInicial
  /\ ChatInicial

NextCalculadora ==
  \/ SetIp
  \/ SetTf
  \/ SetIe
  \/ SetProdNombre
  \/ SetProdPrecio
  \/ SetProdMargen
  \/ HandleAddProduct
  \/ HandleRemoveProduct
  \/ OnClear
  \/ HandleCSVUpload
  \/ ReaderOnload

SpecCalculadora == InitCalculadora /\ [][NextCalculadora]_vars

----------------------------------------------------------------------------
(* The chat: the POST handler (src/unnamed/part_000) and the ChatBot
   component (src/unnamed/part_001).  Bytes are modelled as characters. *)

MaxChunks == 2

MaxEnvios == 2

\* the delta.content of an upstream chunk; <<>> is a chunk without content
Contenidos == {<<>>, <<"a">>, <<"b">>, <<"\"", "\n">>}

Desenlaces == {"completa", "falla"}

\* the characters JSON.stringify writes for one character of a string
escapeJSON(c) ==
  IF c = "\"" THEN <<"\\", "\"">>
  ELSE IF c = "\\" THEN <<"\\", "\\">>
  ELSE IF c = "\n" THEN <<"\\", "n">>
  ELSE <<c>>

RECURSIVE quoteJSON(_)
quoteJSON(s) ==
  IF s = <<>> THEN <<>> ELSE escapeJSON(Head(s)) \o quoteJSON(Tail(s))

ContentOpen == <<"{", "\"", "c", "o", "n", "t", "e", "n", "t", "\"", ":", "\"">>

\* JSON.stringify({ content })
stringifyContent(content) == ContentOpen \o quoteJSON(content) \o <<"\"", "}">>

\* JSON.stringify({ error: 'Error en el streaming' })
stringifyError == <<"{", "\"", "e", "r", "r", "o", "r", "\"", ":", "\"", "E", "r", "r", "o", "r", " ", "e", "n", " ", "e", "l", " ", "s", "t", "r", "e", "a", "m", "i", "n", "g", "\"", "}">>

DataPrefix == <<"d", "a", "t", "a", ":", " ">>

eventoContent(content) ==
  DataPrefix \o stringifyContent(content) \o <<"\n", "\n">>

EventoDone == DataPrefix \o <<"[", "D", "O", "N", "E", "]">> \o <<"\n", "\n">>

EventoError == DataPrefix \o stringifyError \o <<"\n", "\n">>

\* the handler is called: the upstream stream it opens will deliver the
\* chunks upstream and then complete or fail
PostRecibido ==
  /\ post.fase = "inactivo"
  /\ \E upstream \in SeqsUpTo(Contenidos, MaxChunks), desenlace \in Desenlaces :
       post' = [fase |-> "emitiendo", upstream |-> upstream,
                desenlace |-> desenlace, stream |-> <<>>, cerrado |-> FALSE]
  /\ call' = [op |-> "POST"]
  /\ UNCHANGED <<params, csvText, ret, uiVars, chat, envio>>

\* reading the request or opening the upstream throws: HTTP 500, no stream
PostError500 ==
  /\ post.fase = "inactivo"
  /\ post' = [post EXCEPT !.fase = "error500"]
  /\ call' = [op |-> "POST 500"]
  /\ UNCHANGED <<params, csvText, ret, uiVars, chat, envio>>

\* one turn of the for await loop
StreamChunk ==
  /\ post.fase = "emitiendo"
  /\ post.upstream # <<>>
  /\ LET content == Head(post.upstream) IN
     post' = [post EXCEPT
                !.upstream = Tail(@),
                !.stream = IF content # <<>> THEN Append(@, eventoContent(content))
                           ELSE @]
  /\ call' = [op |-> "chunk"]
  /\ UNCHANGED <<params, csvText, ret, uiVars, chat, envio>>

\* the upstream completes: the end marker is enqueued and the stream closed
StreamDone ==
  /\ post.fase = "emitiendo"
  /\ post.upstream = <<>>
  /\ post.desenlace = "completa"
  /\ post' = [post EXCEPT !.fase = "terminado", !.stream = Append(@, EventoDone),
                          !.cerrado = TRUE]
  /\ call' = [op |-> "done"]
  /\ UNCHANGED <<params, csvText, ret, uiVars, chat, envio>>

\* faulty variant of StreamCatch: the stream is left open
StreamCatchSinCerrar ==
  /\ post.fase = "emitiendo"
  /\ post.upstream = <<>>
  /\ post.desenlace = "falla"
  /\ post' = [post EXCEPT !.fase = "terminado", !.stream = Append(@, EventoError)]
  /\ call' = [op |-> "catch"]
  /\ UNCHANGED <<params, csvText, ret, uiVars, chat, envio>>

\* iterating the upstream throws: the error event is enqueued and the
\* stream closed
StreamCatch ==
  /\ post.fase = "emitiendo"
  /\ post.upstream = <<>>
  /\ post.desenlace = "falla"
  /\ post' = [post EXCEPT !.fase = "terminado", !.stream = Append(@, EventoError),
                          !.cerrado = TRUE]
  /\ call' = [op |-> "catch"]
  /\ UNCHANGED <<params, csvText, ret, uiVars, chat, envio>>

\* the bytes of the response body so far
RECURSIVE Aplanar(_)
Aplanar(ss) == IF ss = <<>> THEN <<>> ELSE Head(ss) \o Aplanar(Tail(ss))

Mensaje(role, content) == [role |-> role, content |-> content]

ErrorTexto ==
  <<"L", "o", " ", "s", "i", "e", "n", "t", "o", ",", " ", "h", "u", "b", "o", " ", "u", "n", " ", "e", "r", "r", "o", "r", " ", "a", "l", " ", "p", "r", "o", "c", "e", "s", "a", "r", " ", "t", "u", " ", "m", "e", "n", "s", "a", "j", "e", ".", " ", "V", "e", "r", "i", "f", "i", "c", "a", " ", "q", "u", "e", " ", "l", "a", " ", "A", "P", "I", " ", "k", "e", "y", " ", "d", "e", " ", "G", "r", "o", "q", " ", "e", "s", "t", "é", " ", "c", "o", "n", "f", "i", "g", "u", "r", "a", "d", "a", " ", "c", "o", "r", "r", "e", "c", "t", "a", "m", "e", "n", "t", "e", ".">>

\* texts typed into the message box
EntradasChat == {<<" ">>, <<" ", "h", "i", " ">>}

\* the onChange handler of the message box; the box is disabled while
\* isStreaming, the handler itself has no guard
SetInput ==
  \E v \in EntradasChat :
    /\ chat' = [chat EXCEPT !.input = v]
    /\ call' = [op |-> "setInput"]
    /\ UNCHANGED <<params, csvText, ret, uiVars, envio, post>>

\* faulty variant of sendMessage: a call during streaming is accepted
sendMessageSinGuardia(c) ==
  LET trimmed == trim(c.input) IN
  IF trimmed = <<>> THEN c
  ELSE [messages |-> c.messages \o
                     <<Mensaje("user", trimmed), Mensaje("assistant", <<>>)>>,
        input |-> <<>>,
        isStreaming |-> TRUE]

\* the component state sendMessage leaves before its first await
sendMessage(c) ==
  LET trimmed == trim(c.input) IN
  IF trimmed = <<>> \/ c.isStreaming THEN c
  ELSE [messages |-> c.messages \o
                     <<Mensaje("user", trimmed), Mensaje("assistant", <<>>)>>,
        input |-> <<>>,
        isStreaming |-> TRUE]

EnvioEnReposo == [fase |-> "reposo", accumulated |-> <<>>, leidos |-> 0]

PostInactivo ==
  [fase |-> "inactivo", upstream |-> <<>>, desenlace |-> "completa",
   stream |-> <<>>, cerrado |-> FALSE]

\* sendMessage is called; an accepted call starts a request, which a new
\* call of the handler will serve; the model accepts up to MaxEnvios messages
SendMessage ==
  /\ sendMessage(chat) # chat => Len(chat.messages) < 2 * MaxEnvios
  /\ chat' = sendMessage(chat)
  /\ envio' = IF sendMessage(chat) # chat
              THEN [fase |-> "fetch", accumulated |-> <<>>, leidos |-> 0]
              ELSE envio
  /\ post' = IF sendMessage(chat) # chat THEN PostInactivo ELSE post
  /\ call' = [op |-> "sendMessage"]
  /\ UNCHANGED <<params, csvText, ret, uiVars>>

\* faulty variant of catchError: the error text is added as a new message
catchErrorAnexa(prev) == Append(prev, Mensaje("assistant", ErrorTexto))

\* the messages the catch block leaves
catchError(prev) ==
  [prev EXCEPT ![Len(prev)] = Mensaje("assistant", ErrorTexto)]

\* catch and finally
CatchFinally(op) ==
  /\ chat' = [chat EXCEPT !.messages = catchError(@), !.isStreaming = FALSE]
  /\ envio' = EnvioEnReposo
  /\ call' = [op |-> op]
  /\ UNCHANGED <<params, csvText, ret, uiVars, post>>

FetchRechaza ==
  /\ envio.fase = "fetch"
  /\ CatchFinally("fetch rechaza")

RespuestaNoOk ==
  /\ envio.fase = "fetch"
  /\ CatchFinally("respuesta no ok")

RespuestaSinBody ==
  /\ envio.fase = "fetch"
  /\ CatchFinally("respuesta sin body")

\* the response of the handler arrives with its stream as body
FetchOk ==
  /\ envio.fase = "fetch"
  /\ post.fase \in {"emitiendo", "terminado"}
  /\ envio' = [envio EXCEPT !.fase = "leyendo"]
  /\ call' = [op |-> "fetch ok"]
  /\ UNCHANGED <<params, csvText, ret, uiVars, chat, post>>

\* the events start() enqueues for the chunks of an upstream
RECURSIVE eventosDe(_)
eventosDe(upstream) ==
  IF upstream = <<>> THEN <<>>
  ELSE (IF Head(upstream) # <<>> THEN <<eventoContent(Head(upstream))>> ELSE <<>>)
       \o eventosDe(Tail(upstream))

\* upstreams of at most one chunk
UpstreamsBreves == {<<>>, << <<"a">> >>}

\* the handler answers and runs to the end of a short upstream before the
\* client reads
FetchOkStreamCompleto ==
  /\ envio.fase = "fetch"
  /\ \E upstream \in UpstreamsBreves, desenlace \in Desenlaces :
       post' = [fase |-> "terminado", upstream |-> <<>>, desenlace |-> desenlace,
                stream |-> Append(eventosDe(upstream),
                                  IF desenlace = "completa" THEN EventoDone
                                  ELSE EventoError),
                cerrado |-> TRUE]
  /\ envio' = [envio EXCEPT !.fase = "leyendo"]
  /\ call' = [op |-> "fetch ok"]
  /\ UNCHANGED <<params, csvText, ret, uiVars, chat>>

startsWith(s, prefix) ==
  Len(s) >= Len(prefix) /\ SubSeq(s, 1, Len(prefix)) = prefix

slice(s, n) == SubSeq(s, n + 1, Len(s))

\* the string that starts at s[i], up to its closing quote, which must be
\* followed by } and the end of s
RECURSIVE leerCadena(_, _, _)
leerCadena(s, i, acc) ==
  IF i > Len(s) THEN [ok |-> FALSE]
  ELSE IF s[i] = "\"" THEN
         IF i + 1 = Len(s) /\ s[i + 1] = "}" THEN [ok |-> TRUE, valor |-> acc]
         ELSE [ok |-> FALSE]
  ELSE IF s[i] = "\\" THEN
         IF i + 1 > Len(s) THEN [ok |-> FALSE]
         ELSE IF s[i + 1] = "n" THEN leerCadena(s, i + 2, Append(acc, "\n"))
         ELSE IF s[i + 1] \in {"\"", "\\"} THEN leerCadena(s, i + 2, Append(acc, s[i + 1]))
         ELSE [ok |-> FALSE]
  ELSE leerCadena(s, i + 1, Append(acc, s[i]))

\* JSON.parse(data).content for the texts the handler writes and their
\* pieces: the content if data is a whole {"content":"..."} object, the
\* empty string if JSON.parse throws or the object has no content
parsedContent(data) ==
  IF startsWith(data, ContentOpen)
  THEN LET r == leerCadena(data, Len(ContentOpen) + 1, <<>>)
       IN  IF r.ok THEN r.valor ELSE <<>>
  ELSE <<>>

\* the for loop over the lines of one decoded text: accumulated after it
RECURSIVE procesarLineas(_, _, _)
procesarLineas(lines, i, accumulated) ==
  IF i > Len(lines) THEN accumulated
  ELSE IF startsWith(lines[i], DataPrefix)
       THEN LET data == slice(lines[i], 6) IN
            IF data = <<"[", "D", "O", "N", "E", "]">> THEN accumulated
            ELSE procesarLineas(lines, i + 1, accumulated \o parsedContent(data))
       ELSE procesarLineas(lines, i + 1, accumulated)

\* reader.read() delivers the next bytes of the body, cut wherever the
\* transport cuts them
ReaderRead ==
  /\ envio.fase = "leyendo"
  /\ \E k \in (envio.leidos + 1)..Len(Aplanar(post.stream)) :
       LET text == SubSeq(Aplanar(post.stream), envio.leidos + 1, k)
           accumulated == procesarLineas(split(text, "\n"), 1, envio.accumulated)
       IN  /\ envio' = [envio EXCEPT !.accumulated = accumulated, !.leidos = k]
           /\ chat' = IF accumulated # envio.accumulated
                      THEN [chat EXCEPT !.messages[Len(chat.messages)] =
                                          Mensaje("assistant", accumulated)]
                      ELSE chat
  /\ call' = [op |-> "read"]
  /\ UNCHANGED <<params, csvText, ret, uiVars, post>>

\* reader.read() rejects
ReaderReadFalla ==
  /\ envio.fase = "leyendo"
  /\ CatchFinally("read falla")

\* reader.read() reports done: the body is closed and all of it was read
ReaderDone ==
  /\ envio.fase = "leyendo"
  /\ post.cerrado
  /\ envio.leidos = Len(Aplanar(post.stream))
  /\ chat' = [chat EXCEPT !.isStreaming = FALSE]
  /\ envio' = EnvioEnReposo
  /\ call' = [op |-> "read done"]
  /\ UNCHANGED <<params, csvText, ret, uiVars, post>>

InitChat ==
  /\ params = [inversionPublicitaria |-> R(0), tarifaFija |-> R(0),
               ingresoEsperado |-> R(0), productos |-> <<>>]
  /\ csvText = <<>>
  /\ call = [op |-> "none"]
  /\ ret = Null
  /\ CalculadoraInicial
  /\ ChatInicial

----------------------------------------------------------------------------
(* Specification: the POST handler and its response stream *)

NextServidor ==
  \/ PostRecibido
  \/ PostError500
  \/ StreamChunk
  \/ StreamDone
  \/ StreamCatch

SpecServidor == InitChat /\ [][NextServidor]_vars

\* the handler's loop goes on while the upstream delivers, ends or fails
SpecServidorJusto ==
  SpecServidor /\ WF_vars(StreamChunk \/ StreamDone \/ StreamCatch)

----------------------------------------------------------------------------
(* Specification: the ChatBot component against completed responses *)

NextCliente ==
  \/ SetInput
  \/ SendMessage
  \/ FetchRechaza
  \/ RespuestaNoOk
  \/ RespuestaSinBody
  \/ FetchOkStreamCompleto
  \/ ReaderRead
  \/ ReaderReadFalla
  \/ ReaderDone

SpecCliente == InitChat /\ [][NextCliente]_vars

\* the fetch settles and the reads of the stream go on to its end
SpecClienteJusto ==
  /\ SpecCliente
  /\ WF_vars(FetchRechaza \/ RespuestaNoOk \/ RespuestaSinBody \/ FetchOkStreamCompleto)
  /\ WF_vars(ReaderRead \/ ReaderReadFalla \/ ReaderDone)

----------------------------------------------------------------------------
(* Specification: one message, the handler's stream read as it is written *)

\* the component sends a single message
SendMessageUnico ==
  /\ chat.messages = <<>>
  /\ SendMessage

NextTransporte ==
  \/ SetInput
  \/ SendMessageUnico
  \/ PostRecibido
  \/ StreamChunk
  \/ StreamDone
  \/ StreamCatch
  \/ FetchOk
  \/ ReaderRead
  \/ ReaderDone

SpecTransporte == InitChat /\ [][NextTransporte]_vars

----------------------------------------------------------------------------
(* Properties *)

IPp == params.inversionPublicitaria

TFp == params.tarifaFija

IEp == params.ingresoEsperado

\* the least index of params.productos whose absolute margin is minimal
IndiceCritico ==
  CHOOSE i \in 1..Len(params.productos) :
    /\ \A j \in 1..Len(params.productos) :
         Le(Mul(params.productos[i].precio, params.productos[i].margenBruto),
            Mul(params.productos[j].precio, params.productos[j].margenBruto))
    /\ \A j \in 1..(i - 1) :
         Lt(Mul(params.productos[i].precio, params.productos[i].margenBruto),
            Mul(params.productos[j].precio, params.productos[j].margenBruto))

Critico == params.productos[IndiceCritico]

MargenCritico == Mul(Critico.precio, Critico.margenBruto)

\* C1: productoMargenMinimo returns null for the empty portfolio and
\* otherwise the element of minimal absolute margin at the lowest index.
C1_MargenMinimoPrimero ==
  call.op = "productoMargenMinimo" =>
    IF params.productos = <<>> THEN ret = Null
    ELSE /\ \E i \in 1..Len(params.productos) : ret = params.productos[i]
         /\ ret = Critico

C1_Witness ==
  /\ call.op = "productoMargenMinimo"
  /\ Len(params.productos) = 2
  /\ params.productos[1] # params.productos[2]
  /\ Mul(params.productos[1].precio, params.productos[1].margenBruto)
       = Mul(params.productos[2].precio, params.productos[2].margenBruto)
  /\ ret = params.productos[1]

\* C2 (as claimed): the value returned by calcularVum, and the vum field of
\* calcularTodo, is a non-negative integer for every input.
C2_VumEnteroNoNegativo ==
  /\ call.op = "calcularVum" => (isInteger(ret) /\ Le(R(0), ret))
  /\ call.op = "calcularTodo" => (isInteger(ret.vum) /\ Le(R(0), ret.vum))

\* C3 (as claimed): for adSpend > 0, calcularIpRoas is 1 exactly when
\* fixedFee = 0 and expectedIncome = 0.
C3_UnoSoloSiAmbosCero ==
  (call.op = "calcularIpRoas" /\ Lt(R(0), IPp)) =>
    (ret = R(1) <=> (TFp = R(0) /\ IEp = R(0)))

\* C3 (amended): for adSpend > 0, calcularIpRoas is 1 exactly when
\* fixedFee + expectedIncome = 0.
C3_UnoSiSumaCero ==
  (call.op = "calcularIpRoas" /\ Lt(R(0), IPp)) =>
    (ret = R(1) <=> Add(TFp, IEp) = R(0))

C3_Witness ==
  /\ call.op = "calcularIpRoas"
  /\ Lt(R(0), IPp)
  /\ TFp # R(0)
  /\ ret = R(1)

\* C4: calcularIpRoas is positive infinity for IP <= 0 and 1 + (TF + IE) / IP
\* for IP > 0; the result is never NaN.
C4_IpRoasFormula ==
  call.op = "calcularIpRoas" =>
    /\ ret # <<0, 0>>
    /\ IF Le(IPp, R(0)) THEN ret = Infinity
       ELSE /\ isFinite(ret)
            /\ Mul(Sub(ret, R(1)), IPp) = Add(TFp, IEp)

C4_Witness ==
  /\ call.op = "calcularIpRoas"
  /\ IPp = R(50000) /\ TFp = R(10000) /\ IEp = R(15000)
  /\ ret = Frac(3, 2)

\* the margin calcularVum divides by: the one passed, else the critical one
C5_Margen == IF call.margenPasado THEN call.margenAbs ELSE MargenCritico

C5_Total == Add(Add(IPp, TFp), IEp)

\* C5: calcularVum is 0 when the margin used is <= 0 or when no margin is
\* passed and the portfolio is empty; otherwise it is the least integer n
\* with n * m >= totalCost.
C5_VumTecho ==
  call.op = "calcularVum" =>
    IF ~call.margenPasado /\ params.productos = <<>> THEN ret = R(0)
    ELSE IF Le(C5_Margen, R(0)) THEN ret = R(0)
    ELSE /\ isInteger(ret)
         /\ Le(C5_Total, Mul(ret, C5_Margen))
         /\ Lt(Mul(Sub(ret, R(1)), C5_Margen), C5_Total)

C5_Witness ==
  /\ call.op = "calcularVum"
  /\ call.margenPasado /\ call.margenAbs = R(400)
  /\ C5_Total = R(75000)
  /\ ret = R(188)

\* C6: when calcularTodo reports vum > 0 its cprEstimado is
\* inversionPublicitaria / vum; calcularCprEstimado is positive infinity
\* whenever vum <= 0.
C6_CprEstimado ==
  /\ (call.op = "calcularTodo" /\ Lt(R(0), ret.vum)) =>
       (isFinite(ret.cprEstimado) /\ Mul(ret.cprEstimado, ret.vum) = IPp)
  /\ (call.op = "calcularCprEstimado" /\ Le(call.vum, R(0))) => ret = Infinity

C6_Witness ==
  /\ call.op = "calcularTodo"
  /\ IPp = R(50000)
  /\ ret.vum = R(750)
  /\ ret.cprEstimado = Frac(200, 3)

ResultadoVacio ==
  [ipRoas |-> R(0), vum |-> R(0), roasMinTradicional |-> R(0),
   cprEstimado |-> R(0), costosTotales |-> R(0), margenMinimoUsado |-> R(0),
   precioProductoMinimo |-> R(0), productoCritico |-> "N/A"]

\* C7: with an empty portfolio calcularTodo returns all numeric fields 0 and
\* productoCritico "N/A", whatever the three amounts are.
C7_PortafolioVacio ==
  (call.op = "calcularTodo" /\ params.productos = <<>>) => ret = ResultadoVacio

C7_Witness ==
  /\ call.op = "calcularTodo"
  /\ params.productos = <<>>
  /\ IPp = R(50000) /\ TFp = R(10000) /\ IEp = R(15000)
  /\ ret.costosTotales = R(0)

\* C8: with a non-empty portfolio calcularTodo returns the total cost, the
\* critical product's margin, price and name, the vum of that margin, and
\* the three ratios computed from that same vum.
C8_ResultadoCompleto ==
  (call.op = "calcularTodo" /\ params.productos # <<>>) =>
    /\ ret.costosTotales = Add(Add(IPp, TFp), IEp)
    /\ ret.margenMinimoUsado = MargenCritico
    /\ ret.precioProductoMinimo = Critico.precio
    /\ ret.productoCritico = Critico.nombre
    /\ ret.vum = calcularVum(params, TRUE, MargenCritico)
    /\ ret.ipRoas = calcularIpRoas(IPp, TFp, IEp)
    /\ ret.roasMinTradicional = calcularRoasMinTradicional(IPp, ret.vum, Critico.precio)
    /\ ret.cprEstimado = calcularCprEstimado(IPp, ret.vum)

C8_Witness ==
  /\ call.op = "calcularTodo"
  /\ Len(params.productos) = 2
  /\ IndiceCritico = 2
  /\ IPp = R(50000) /\ TFp = R(10000) /\ IEp = R(15000)
  /\ ret.vum = R(750)
  /\ ret.roasMinTradicional = Frac(15, 2)
  /\ ret.productoCritico = "Producto B"

\* C9: calcularSensibilidad returns null exactly when the portfolio is
\* empty, for every sweep kind and point count.
C9_NuloSoloSiVacio ==
  call.op = "calcularSensibilidad" =>
    IF params.productos = <<>> THEN ret = Null
    ELSE ret # Null /\ Len(ret.puntos) >= 1

C9_Witness ==
  /\ call.op = "calcularSensibilidad"
  /\ call.tipo = "Margen"
  /\ params.productos = <<>>
  /\ ret = Null

C10_Base ==
  CASE call.tipo = "IP" -> IPp
    [] call.tipo = "TF" -> TFp
    [] call.tipo = "IE" -> IEp
    [] call.tipo = "Margen" -> Critico.margenBruto

C10_Defecto ==
  CASE call.tipo = "IP" -> R(10000)
    [] call.tipo = "TF" -> R(5000)
    [] call.tipo = "IE" -> R(5000)
    [] call.tipo = "Margen" -> Frac(3, 10)

C10_BaseP == IF Lt(R(0), C10_Base) THEN C10_Base ELSE C10_Defecto

C10_Low ==
  CASE call.tipo = "IP" -> Max(R(100), Mul(Frac(1, 2), C10_BaseP))
    [] call.tipo \in {"TF", "IE"} -> Max(R(0), Mul(Frac(1, 2), C10_BaseP))
    [] call.tipo = "Margen" -> Max(Frac(1, 20), Mul(Frac(1, 2), C10_BaseP))

C10_High ==
  CASE call.tipo \in {"IP", "TF", "IE"} -> Mul(Frac(3, 2), C10_BaseP)
    [] call.tipo = "Margen" -> Min(Frac(19, 20), Mul(Frac(3, 2), C10_BaseP))

\* C10: for a non-empty portfolio and pointCount >= 1 the x values are
\* pointCount values linearly spaced from low to high, the first being low
\* and (for pointCount >= 2) the last being high, with low and high derived
\* from the varied input or, if that is not positive, from its default.
C10_XLineal ==
  (call.op = "calcularSensibilidad" /\ params.productos # <<>>
     /\ call.numPoints >= 1) =>
    LET n == call.numPoints
        xs == [k \in 1..Len(ret.puntos) |-> ret.puntos[k].x]
    IN
    /\ Len(xs) = n
    /\ xs[1] = C10_Low
    /\ n >= 2 => xs[n] = C10_High
    /\ \A k \in 1..n :
         n >= 2 => Mul(xs[k], R(n - 1))
                     = Add(Mul(C10_Low, R(n - k)), Mul(C10_High, R(k - 1)))

C10_Witness ==
  /\ call.op = "calcularSensibilidad"
  /\ call.tipo = "IP" /\ call.numPoints = 3
  /\ IPp = R(0)
  /\ params.productos # <<>>
  /\ ret.puntos[1].x = R(5000)
  /\ ret.puntos[2].x = R(10000)
  /\ ret.puntos[3].x = R(15000)

EsBarrido(tipo) ==
  /\ call.op = "calcularSensibilidad"
  /\ call.tipo = tipo
  /\ params.productos # <<>>

\* C11 (as claimed): for a non-empty portfolio and pointCount >= 2 every
\* sweep is in strictly ascending x order.
C11_XAscendente ==
  (call.op = "calcularSensibilidad" /\ params.productos # <<>>
     /\ call.numPoints >= 2) =>
    \A k \in 1..(Len(ret.puntos) - 1) :
      Lt(ret.puntos[k].x, ret.puntos[k + 1].x)

\* C12 (as claimed): every x of the Margen sweep lies in [0.05, 0.95],
\* whatever the critical product's gross margin is.
C12_MargenEnRango ==
  EsBarrido("Margen") =>
    \A k \in 1..Len(ret.puntos) :
      /\ Le(Frac(1, 20), ret.puntos[k].x)
      /\ Le(ret.puntos[k].x, Frac(19, 20))

\* C13: every point of the Margen sweep has the same ipRoas, that of the
\* unswept parameters, which is also the ipRoas calcularTodo reports.
C13_IpRoasConstante ==
  EsBarrido("Margen") =>
    \A k \in 1..Len(ret.puntos) :
      /\ ret.puntos[k].ipRoas = ret.puntos[1].ipRoas
      /\ ret.puntos[k].ipRoas = calcularTodo(params).ipRoas
      /\ IF Le(IPp, R(0)) THEN ret.puntos[k].ipRoas = Infinity
         ELSE Mul(Sub(ret.puntos[k].ipRoas, R(1)), IPp) = Add(TFp, IEp)

C13_Witness ==
  /\ EsBarrido("Margen")
  /\ call.numPoints = 3
  /\ IPp = R(50000) /\ TFp = R(10000) /\ IEp = R(15000)
  /\ ret.puntos[1].x # ret.puntos[3].x
  /\ \A k \in 1..3 : ret.puntos[k].ipRoas = Frac(3, 2)

\* C14: in the IP, TF and IE sweeps each point is the two formulas evaluated
\* with x in place of the swept input and the other two inputs at their
\* params values, the critical margin and price being fixed; in the Margen
\* sweep roasTradicional is the composite formula at margin price * x.
C14_PuntosPorFormula ==
  (call.op = "calcularSensibilidad" /\ params.productos # <<>>) =>
    \A k \in 1..Len(ret.puntos) :
      LET pt == ret.puntos[k] IN
      CASE call.tipo = "IP" ->
             /\ pt.ipRoas = calcularIpRoas(pt.x, TFp, IEp)
             /\ pt.roasTradicional
                  = fRoasTradicional(pt.x, TFp, IEp, MargenCritico, Critico.precio)
        [] call.tipo = "TF" ->
             /\ pt.ipRoas = calcularIpRoas(IPp, pt.x, IEp)
             /\ pt.roasTradicional
                  = fRoasTradicional(IPp, pt.x, IEp, MargenCritico, Critico.precio)
        [] call.tipo = "IE" ->
             /\ pt.ipRoas = calcularIpRoas(IPp, TFp, pt.x)
             /\ pt.roasTradicional
                  = fRoasTradicional(IPp, TFp, pt.x, MargenCritico, Critico.precio)
        [] call.tipo = "Margen" ->
             pt.roasTradicional
               = fRoasTradicional(IPp, TFp, IEp, Mul(Critico.precio, pt.x),
                                  Critico.precio)

\* a TF sweep whose range comes from the default 5000 while IP stays 0
C14_Witness ==
  /\ EsBarrido("TF")
  /\ call.numPoints = 2
  /\ IPp = R(0) /\ TFp = R(0)
  /\ ret.puntos[1].x = R(2500) /\ ret.puntos[2].x = R(7500)
  /\ ret.puntos[1].ipRoas = Infinity

\* C15: fRoasTradicional is positive infinity when IP <= 0 or mStar <= 0 and
\* otherwise calcularRoasMinTradicional at the ceiling of the total cost over
\* mStar; calcularRoasMinTradicional is positive infinity when IP <= 0 and
\* precio * vum / IP otherwise.
C15_RoasTradicional ==
  /\ call.op = "fRoasTradicional" =>
       IF Le(IPp, R(0)) \/ Le(call.mStar, R(0)) THEN ret = Infinity
       ELSE LET n == Div(Mul(ret, IPp), call.pStar)
                total == Add(Add(IPp, TFp), IEp)
            IN  /\ isFinite(ret)
                /\ isInteger(n)
                /\ Le(total, Mul(n, call.mStar))
                /\ Lt(Mul(Sub(n, R(1)), call.mStar), total)
                /\ ret = calcularRoasMinTradicional(IPp, n, call.pStar)
  /\ call.op = "calcularRoasMinTradicional" =>
       IF Le(call.IP, R(0)) THEN ret = Infinity
       ELSE isFinite(ret) /\ Mul(ret, call.IP) = Mul(call.precio, call.vum)

C15_Witness ==
  /\ call.op = "fRoasTradicional"
  /\ IPp = R(50000) /\ TFp = R(10000) /\ IEp = R(15000)
  /\ call.mStar = R(400) /\ call.pStar = R(1000)
  /\ ret = Frac(188, 50)

\* C16: with the three amounts >= 0 and a critical price > 0, a point of the
\* Margen sweep with a larger x never has a larger roasTradicional.
C16_RoasNoCreciente ==
  (EsBarrido("Margen") /\ Le(R(0), IPp) /\ Le(R(0), TFp) /\ Le(R(0), IEp)
     /\ Lt(R(0), Critico.precio)) =>
    \A j, k \in 1..Len(ret.puntos) :
      Lt(ret.puntos[j].x, ret.puntos[k].x) =>
        Le(ret.puntos[k].roasTradicional, ret.puntos[j].roasTradicional)

C16_Witness ==
  /\ EsBarrido("Margen")
  /\ call.numPoints = 3
  /\ IPp = R(50000) /\ TFp = R(10000) /\ IEp = R(15000)
  /\ ret.puntos[1].x = Frac(3, 20) /\ ret.puntos[3].x = Frac(9, 20)
  /\ ret.puntos[1].roasTradicional = R(10)
  /\ ret.puntos[2].roasTradicional = R(5)
  /\ ret.puntos[3].roasTradicional = Frac(167, 50)

Lineas == split(trim(csvText), "\n")

Cabecera ==
  LET raw == split(Lineas[1], ",")
  IN  [k \in 1..Len(raw) |-> toLowerCase(trim(raw[k]))]

Campos(i) ==
  LET raw == split(Lineas[i], ",")
  IN  [k \in 1..Len(raw) |-> trim(raw[k])]

CampoNombre(i) ==
  Or(row(Cabecera, Campos(i), Clave_nombre), row(Cabecera, Campos(i), Clave_name))

CampoPrecio(i) ==
  Or(row(Cabecera, Campos(i), Clave_precio), row(Cabecera, Campos(i), Clave_price))

CampoMargen(i) ==
  Or(Or(row(Cabecera, Campos(i), Clave_margen),
        row(Cabecera, Campos(i), Clave_margen_bruto)),
     row(Cabecera, Campos(i), Clave_margin))

\* a field parses as a number: it is not empty and parseFloat reads a number
EsNumero(campo) == campo # <<>> /\ ~isNaN(parseFloat(campo))

\* the k-th least element of a set of line numbers
Enesimo(S, k) == CHOOSE i \in S : Cardinality({j \in S : j < i}) = k - 1

\* the data lines the claim calls usable
Utilizables ==
  {i \in 2..Len(Lineas) :
     /\ Len(Campos(i)) >= Len(Cabecera)
     /\ EsNumero(CampoPrecio(i))
     /\ EsNumero(CampoMargen(i))}

\* the data lines parseCSV keeps: an empty price or margin field reads as 0
Aceptadas ==
  {i \in 2..Len(Lineas) :
     /\ Len(Campos(i)) >= Len(Cabecera)
     /\ CampoPrecio(i) # <<>> => EsNumero(CampoPrecio(i))
     /\ CampoMargen(i) # <<>> => EsNumero(CampoMargen(i))}

PrecioLeido(i) ==
  IF CampoPrecio(i) = <<>> THEN R(0) ELSE parseFloat(CampoPrecio(i))

MargenLeido(i) ==
  IF CampoMargen(i) = <<>> THEN R(0) ELSE parseFloat(CampoMargen(i))

C18_MargenPorcentaje ==
  call.op = "parseCSV" =>
    \A k \in 1..Len(ret) :
      LET m == MargenLeido(Enesimo(Aceptadas, k)) IN
      IF Lt(R(1), m) THEN Mul(ret[k].margenBruto, R(100)) = m
      ELSE ret[k].margenBruto = m

C18_Witness ==
  /\ call.op = "parseCSV"
  /\ Len(ret) = 2
  /\ MargenLeido(Enesimo(Aceptadas, 1)) = R(35)
  /\ ret[1].margenBruto = Frac(7, 20)
  /\ MargenLeido(Enesimo(Aceptadas, 2)) = R(1)
  /\ ret[2].margenBruto = R(1)

\* products a CSV text is generated from: two plain ones, one without a
\* name and one whose name holds a comma
ProductosCSV ==
  { Producto(<<"Z", "a", "p", "a", "t", "o", "s">>, R(1500), Frac(7, 20)),
    Producto(<<"C", "a", "m", "i", "s", "a">>, R(800), Frac(1, 4)),
    Producto(<<>>, R(100), R(1)),
    Producto(<<"a", ",", "b">>, R(100), Frac(1, 2)) }

\* a number with at most two decimals as JavaScript prints it
Decimal(a) ==
  IF a[2] = 1 THEN String(a[1])
  ELSE LET cent == ((a[1] * 100) \div a[2]) % 100
       IN  String(a[1] \div a[2]) \o <<".">> \o
           (IF cent % 10 = 0 THEN String(cent \div 10)
            ELSE <<Digitos[(cent \div 10) + 1], Digitos[(cent % 10) + 1]>>)

RenderCSV(ps) ==
  unirLineas(<<<<"n", "o", "m", "b", "r", "e", ",", "p", "r", "e", "c", "i", "o", ",", "m", "a", "r", "g", "e", "n">>>> \o
    [k \in 1..Len(ps) |->
       ps[k].nombre \o <<",">> \o Decimal(ps[k].precio) \o <<",">>
         \o Decimal(ps[k].margenBruto)])

\* a name the text format can carry: not empty, no comma, no line break, no
\* white space at either end
NombrePlano(n) ==
  /\ n # <<>>
  /\ \A i \in 1..Len(n) : n[i] \notin {",", "\n", "\r"}
  /\ trim(n) = n

\* C19 (as claimed): parsing the CSV text rendered from any sequence of
\* products with margins <= 1 returns that sequence.
C19_IdaYVuelta ==
  call.op = "parseCSV" =>
    \A ps \in SeqsUpTo(ProductosCSV, MaxFilas) :
      csvText = RenderCSV(ps) => ret = ps

\* C19 (amended): the same for products whose names are not empty and hold
\* no comma, no line break and no white space at either end.
C19_IdaYVueltaNombresPlanos ==
  call.op = "parseCSV" =>
    \A ps \in SeqsUpTo(ProductosCSV, MaxFilas) :
      (csvText = RenderCSV(ps) /\ \A k \in 1..Len(ps) : NombrePlano(ps[k].nombre))
        => ret = ps

C19_Witness ==
  /\ call.op = "parseCSV"
  /\ \E ps \in SeqsUpTo(ProductosCSV, MaxFilas) :
       /\ Len(ps) = 2 /\ ps[1] # ps[2]
       /\ \A k \in 1..2 : NombrePlano(ps[k].nombre)
       /\ csvText = RenderCSV(ps)
       /\ ret = ps

\* C20: an accepted row without a name is named "P" followed by its 1-based
\* position among the products, skipped rows not being counted.
C20_NombrePorDefecto ==
  call.op = "parseCSV" =>
    \A k \in 1..Len(ret) :
      IF CampoNombre(Enesimo(Aceptadas, k)) = <<>>
      THEN ret[k].nombre = <<"P", Digitos[k + 1]>>
      ELSE ret[k].nombre = CampoNombre(Enesimo(Aceptadas, k))

\* the only product comes from the second data line and is still P1
C20_Witness ==
  /\ call.op = "parseCSV"
  /\ Len(Lineas) = 3
  /\ Aceptadas = {3}
  /\ Clave_nombre \notin {Cabecera[i] : i \in 1..Len(Cabecera)}
  /\ ret[1].nombre = <<"P", "1">>

\* C21: with a non-empty portfolio calcularTodo never returns the
\* empty-portfolio result (one of ipRoas, vum, cprEstimado is not 0); when
\* the critical absolute margin is <= 0 it returns vum = 0 and cprEstimado =
\* positive infinity; and calcularSensibilidad returns a non-null sequence.
C21_VacioDistinguible ==
  /\ (call.op = "calcularTodo" /\ params.productos # <<>>) =>
       /\ ret # ResultadoVacio
       /\ (ret.ipRoas # R(0) \/ ret.vum # R(0) \/ ret.cprEstimado # R(0))
       /\ Le(MargenCritico, R(0)) =>
            (ret.vum = R(0) /\ ret.cprEstimado = Infinity)
  /\ (call.op = "calcularSensibilidad" /\ params.productos # <<>>) =>
       ret # Null

\* a degenerate product named like the empty result, amounts that cancel:
\* ipRoas and vum are both 0 and only cprEstimado tells the results apart
C21_Witness ==
  /\ call.op = "calcularTodo"
  /\ params.productos # <<>>
  /\ Le(MargenCritico, R(0))
  /\ ret.productoCritico = "N/A"
  /\ ret.ipRoas = R(0)
  /\ ret.vum = R(0)
  /\ ret.cprEstimado = Infinity

\* C24: for a non-empty portfolio and adSpend > 0, calcularTodo's
\* roasMinTradicional equals fRoasTradicional at the base point, also when
\* the critical absolute margin is <= 0.
C24_RoasCoincideConBarrido ==
  (call.op = "calcularTodo" /\ params.productos # <<>> /\ Lt(R(0), IPp)) =>
    ret.roasMinTradicional =
      fRoasTradicional(IPp, TFp, IEp, MargenCritico, Critico.precio)

\* C23: in every state the Calculator reaches by adding, removing and
\* clearing products and uploading CSV files, every product of the portfolio
\* has price > 0 and 0 <= grossMargin <= 1.
C23_ProductosValidos ==
  \A k \in 1..Len(calc.productos) :
    /\ Lt(R(0), calc.productos[k].precio)
    /\ Le(R(0), calc.productos[k].margenBruto)
    /\ Le(calc.productos[k].margenBruto, R(1))

\* C25: when a file load completes, the portfolio becomes the sequence
\* parseCSV returns if that is not empty and is left as it was otherwise;
\* the three amounts and the fields of the add-product form do not change.
C25_CargaReemplaza ==
  [][call'.op = "onload" =>
       LET parsed == parseCSV(call'.text) IN
       /\ calc'.productos = IF Len(parsed) > 0 THEN parsed ELSE calc.productos
       /\ calc'.ip = calc.ip /\ calc'.tf = calc.tf /\ calc'.ie = calc.ie
       /\ calc'.prodNombre = calc.prodNombre
       /\ calc'.prodPrecio = calc.prodPrecio
       /\ calc'.prodMargen = calc.prodMargen]_vars

\* a load of two products completes on a portfolio that held a product
\* added through the form, with amounts and form fields filled in
C25_Witness ==
  /\ call.op = "onload"
  /\ Len(call.prev) = 1
  /\ call.prev[1].nombre = <<"A">>
  /\ Len(calc.productos) = 2
  /\ calc.productos = parseCSV(call.text)
  /\ calc.ip = R(1000)
  /\ calc.prodPrecio # <<>>

EsEventoContent(e) == \E c \in Contenidos \ {<<>>} : e = eventoContent(c)

\* content events only, then, once the stream is closed, one terminal event
FormaDelStream ==
  LET s == post.stream IN
  /\ \A i \in 1..(Len(s) - 1) : EsEventoContent(s[i])
  /\ IF post.cerrado
     THEN /\ Len(s) > 0
          /\ s[Len(s)] = IF post.desenlace = "completa" THEN EventoDone
                         ELSE EventoError
     ELSE \A i \in 1..Len(s) : EsEventoContent(s[i])

RolesAlternos ==
  \A i \in 1..Len(chat.messages) :
    chat.messages[i].role = IF i % 2 = 1 THEN "user" ELSE "assistant"

\* C26: a sendMessage call while isStreaming, or with an input that is
\* blank after trimming, sends nothing and changes no state; a request is
\* in flight exactly while isStreaming, so there is at most one; the roles
\* of messages alternate user, assistant, ... starting with user.
C26_UnEnvioALaVez ==
  /\ [][(call'.op = "sendMessage" /\ (chat.isStreaming \/ trim(chat.input) = <<>>))
          => (chat' = chat /\ envio' = envio /\ post' = post)]_vars
  /\ [](chat.isStreaming <=> envio.fase # "reposo")
  /\ []RolesAlternos

\* a call with a message typed in is rejected during the second exchange
C26_Witness ==
  /\ call.op = "sendMessage"
  /\ chat.isStreaming
  /\ trim(chat.input) # <<>>
  /\ Len(chat.messages) = 4
  /\ envio.fase = "leyendo"

\* C27: isStreaming, once set by an accepted sendMessage, is eventually
\* reset, given that the fetch settles and the stream ends; when the fetch
\* rejects, the response is not OK or has no body, the last message becomes
\* the assistant's fixed error text and the earlier ones stay.
C27_StreamingTermina ==
  /\ chat.isStreaming ~> ~chat.isStreaming
  /\ [][call'.op \in {"fetch rechaza", "respuesta no ok", "respuesta sin body"}
          => /\ ~chat'.isStreaming
             /\ Len(chat'.messages) = Len(chat.messages)
             /\ chat'.messages[Len(chat.messages)] = Mensaje("assistant", ErrorTexto)
             /\ \A i \in 1..(Len(chat.messages) - 1) :
                  chat'.messages[i] = chat.messages[i]]_vars

\* the second exchange fails after a first one that streamed "a"
C27_Witness ==
  /\ call.op = "respuesta no ok"
  /\ ~chat.isStreaming
  /\ Len(chat.messages) = 4
  /\ chat.messages[2] = Mensaje("assistant", <<"a">>)
  /\ chat.messages[4] = Mensaje("assistant", ErrorTexto)

\* the contents of the content events of a stream, in order
RECURSIVE ContenidoEmitido(_)
ContenidoEmitido(s) ==
  IF s = <<>> THEN <<>>
  ELSE (IF EsEventoContent(Head(s))
        THEN CHOOSE c \in Contenidos : Head(s) = eventoContent(c)
        ELSE <<>>) \o ContenidoEmitido(Tail(s))

\* C28: when the stream has been read to its end, the last assistant
\* message holds the concatenation of the content fragments the handler
\* emitted, however the transport cut the bytes into reads.
C28_ContenidoCompleto ==
  call.op = "read done" =>
    chat.messages[Len(chat.messages)].content = ContenidoEmitido(post.stream)

====
